---- MODULE Spec2Model ----
(***************************************************************************)
(* Grid-trading backtest engine (src/core/grid_trading.py) and paginated   *)
(* kline fetcher (src/core/binance_data_fetcher.py).                       *)
(*                                                                         *)
(* Numbers: the Python code computes in binary floating point.  The model  *)
(* computes the same expressions in exact rational arithmetic; a number is *)
(* a pair <<n, d>> in lowest terms with d > 0.  Properties are therefore   *)
(* statements about the formulas the code evaluates, not about the last    *)
(* bit of a float.                                                         *)
(***************************************************************************)
EXTENDS Integers, Sequences, FiniteSets, TLC

\* ------------------------------------------------------------ bounds
\* Largest number of execute_buy_order / execute_sell_order calls in a run
\* of the engine driven call by call.
MaxCalls == 5
\* Largest number of rows of price_data given to simulate_grid_trading.
MaxTicks == 3
\* Largest number of candles the remote history holds.
MaxCandles == 5
\* Largest page size (the limit parameter) a fetch is called with.
MaxLimit == 2
\* Number of times simulate_grid_trading is called on one engine.
MaxRuns == 2
\* Largest num_grids an engine is constructed with.
MaxGrids == 5

\* ------------------------------------------------------------ numbers
Abs(x) == IF x < 0 THEN -x ELSE x

RECURSIVE Gcd(_, _)
Gcd(a, b) == IF b = 0 THEN a ELSE Gcd(b, a % b)

\* The number n/d (d # 0) in lowest terms with a positive denominator.
Q(n, d) ==
    LET g == Gcd(Abs(n), Abs(d))
        s == IF d < 0 THEN -1 ELSE 1
    IN  <<(s * n) \div g, (s * d) \div g>>

Lcm(a, b) == (a \div Gcd(a, b)) * b

Zero == Q(0, 1)
One == Q(1, 1)
Hundred == Q(100, 1)

\* x + y
Add(x, y) ==
    LET l == Lcm(x[2], y[2])
    IN  Q(x[1] * (l \div x[2]) + y[1] * (l \div y[2]), l)

\* x - y
Sub(x, y) == Add(x, <<-y[1], y[2]>>)

\* x * y, cross-reduced before multiplying
Mul(x, y) ==
    LET g1 == Gcd(Abs(x[1]), y[2])
        g2 == Gcd(Abs(y[1]), x[2])
    IN  Q((x[1] \div g1) * (y[1] \div g2), (x[2] \div g2) * (y[2] \div g1))

\* x / y for y # 0 (the caller models ZeroDivisionError)
Div(x, y) == Mul(x, Q(y[2], y[1]))

\* x <= y
Le(x, y) ==
    LET l == Lcm(x[2], y[2])
    IN  x[1] * (l \div x[2]) <= y[1] * (l \div y[2])

\* x < y
Lt(x, y) == ~Le(y, x)

\* Round2 that cuts the digits after the second decimal.
Round2Down(x) == Q((100 * x[1]) \div x[2], 100)

\* Python's round(x, 2) of a non-negative x: the nearest multiple of 1/100,
\* an exact tie going to the even one.
Round2(x) ==
    LET n == 100 * x[1]
        f == n \div x[2]
        r == 2 * (n % x[2])
    IN  IF r < x[2] THEN Q(f, 100)
        ELSE IF r > x[2] THEN Q(f + 1, 100)
        ELSE IF f % 2 = 0 THEN Q(f, 100) ELSE Q(f + 1, 100)

\* ------------------------------------------------------------ ladder
\* The loop of _calculate_grid_levels from i on: the discount of level i,
\* the clamp at 100 %, the rounded level.
RECURSIVE LevelsFrom(_, _, _, _)
LevelsFrom(i, initial_price, grid_spacing_pct, num_grids) ==
    IF i > num_grids THEN <<>>
    ELSE LET total_discount == Div(Mul(Q(i, 1), grid_spacing_pct), Hundred)
         IN  IF Le(One, total_discount) THEN <<>>
             ELSE <<Round2(Mul(initial_price, Sub(One, total_discount)))>>
                  \o LevelsFrom(i + 1, initial_price, grid_spacing_pct, num_grids)

\* A num_grids argument: a Python int n, or a Python float of value x.
PyInt(n) == [type |-> "int", value |-> n]
PyFloat(x) == [type |-> "float", value |-> x]

\* InvalidParameter without the check of grid_spacing_pct.
InvalidParameterSpacingUnchecked(initial_price, grid_spacing_pct, num_grids) ==
    \/ Le(initial_price, Zero)
    \/ num_grids.type # "int"
    \/ (num_grids.type = "int" /\ num_grids.value <= 0)

\* The three checks that open _calculate_grid_levels; the prices and the
\* spacing drawn are numbers, so isinstance(.., (int, float)) holds for them.
InvalidParameter(initial_price, grid_spacing_pct, num_grids) ==
    \/ Le(initial_price, Zero)
    \/ Le(grid_spacing_pct, Zero)
    \/ num_grids.type # "int"
    \/ (num_grids.type = "int" /\ num_grids.value <= 0)

\* _calculate_grid_levels: "ValueError" for a rejected parameter, else the
\* list of levels.
CalculateGridLevels(initial_price, grid_spacing_pct, num_grids) ==
    IF InvalidParameter(initial_price, grid_spacing_pct, num_grids) THEN "ValueError"
    ELSE LevelsFrom(1, initial_price, grid_spacing_pct, num_grids.value)

\* ------------------------------------------------------------ inputs
\* Constructor arguments of GridTrading the runs are drawn from.
\*  1: clamped ladder 0.08, 0.06, 0.04, 0.02 (the fifth discount is 100 %)
\*  2: ladder 0.03, 0.02, 0.00 (0.004 rounds to 0.00)
\*  3: ladder 0.02, 0.02, 0.01 (0.024 and 0.018 round to the same level)
Configs ==
    { [initial_price |-> Q(10, 100), grid_spacing_pct |-> Q(20, 1), num_grids |-> PyInt(5),
       budget |-> Q(24, 100), entry_alloc |-> Q(1, 2), fee_rate |-> Q(1, 10)],
      [initial_price |-> Q(4, 100), grid_spacing_pct |-> Q(30, 1), num_grids |-> PyInt(3),
       budget |-> Q(24, 100), entry_alloc |-> Q(1, 3), fee_rate |-> Q(1, 10)],
      [initial_price |-> Q(3, 100), grid_spacing_pct |-> Q(20, 1), num_grids |-> PyInt(3),
       budget |-> Q(24, 100), entry_alloc |-> Q(1, 2), fee_rate |-> Zero] }

\* Prices a call or a tick may carry.
Prices == { Q(0, 1), Q(2, 100), Q(3, 100), Q(5, 100), Q(8, 100), Q(10, 100) }

\* Values of profit_target_pct.
Targets == { Q(0, 1), Q(25, 1) }

\* Python's None, where a timestamp may stand (timestamps are >= 0 here).
None == -1

\* The local name chunk before its first assignment, and once it is bound
\* to a list.
Unbound == [bound |-> FALSE, value |-> <<>>]
Bound(list) == [bound |-> TRUE, value |-> list]

VARIABLES
    cfg,              \* the constructor arguments (self.initial_price, ...)
    profit_target_pct,\* simulate: the profit_target_pct argument
    grid_levels,      \* self.grid_levels
    position_size,    \* self.position_size
    cash,             \* self.cash
    positions,        \* self.positions, in insertion order
    total_coin,       \* self.total_coin
    realized_profit,  \* self.realized_profit
    total_fee,        \* self.total_fee
    calls,            \* the last two calls: what was called, on what state, with what result
    ncalls,           \* number of calls made so far
    price_data,       \* simulate: the Close column
    tick,             \* simulate: index of the next row
    trading_log,      \* simulate: trading_log
    portofolio_history,\* simulate: portofolio_history
    sim,              \* simulate: "idle", "running", "returned" or "raised"
    runs,             \* simulate: number of calls started on this engine
    remote,           \* fetch: number of candles the remote history holds
    limit,            \* fetch: the limit argument
    start_ts,         \* fetch: start_ts
    end_ts,           \* fetch: end_ts
    params,           \* fetch: params["startTime"], params["endTime"]
    all_data,         \* fetch: all_data
    chunk,            \* fetch: chunk, or Unbound before its first assignment
    mirror,           \* fetch: index in base_urls of the next mirror of the round
    fpc,              \* fetch: "idle", "mirrors", "check", "after" or "done"
    outcome,          \* fetch: "none", "returned" or the exception raised
    pages,            \* fetch: the answers received so far, each with its request
    tried,            \* fetch: what each mirror contacted in the current round did
    ctor,             \* __init__: "none", "new", "ladder", "constructed" or "ValueError"
    attrs             \* the attributes of self that have been assigned

engineVars == <<cfg, grid_levels, position_size, cash, positions, total_coin,
                realized_profit, total_fee>>
simVars == <<profit_target_pct, price_data, tick, trading_log, portofolio_history, sim,
             runs>>
callVars == <<calls, ncalls>>
fetchVars == <<remote, limit, start_ts, end_ts, params, all_data, chunk, mirror, fpc,
               outcome, pages, tried>>
ctorVars == <<ctor, attrs>>
vars == <<engineVars, callVars, simVars, fetchVars, ctorVars>>

\* ------------------------------------------------------------ engine
\* self._apply_fee(amount)
ApplyFee(amount, fee_rate) == Mul(amount, Sub(One, fee_rate))

\* level in self.positions
HasPosition(pos, level) == \E k \in 1..Len(pos) : pos[k].level = level

\* del self.positions[level]
DelPosition(pos, level) == SelectSeq(pos, LAMBDA e : e.level # level)

\* self.positions[level] = position: a key already held keeps its place and
\* takes the new value, a new key goes last.
SetPosition(pos, position) ==
    IF HasPosition(pos, position.level)
    THEN [k \in 1..Len(pos) |->
            IF pos[k].level = position.level THEN position ELSE pos[k]]
    ELSE Append(pos, position)

\* The mutable fields of the engine as one record.
Engine ==
    [cash |-> cash, positions |-> positions, total_coin |-> total_coin,
     realized_profit |-> realized_profit, total_fee |-> total_fee]

\* BuyAt with the fee also taken from cash.
BuyAtFeeFromCash(s, level, ps, fee_rate) ==
    LET fee == Mul(ps, fee_rate)
        quantity == ApplyFee(Div(ps, level), fee_rate)
    IN  [s EXCEPT
           !.positions = SetPosition(@, [level |-> level, quantity |-> quantity,
                                         buy_price |-> level]),
           !.cash = Sub(@, Add(ps, fee)),
           !.total_coin = Add(@, quantity),
           !.total_fee = Add(@, fee),
           !.executed_orders = Append(@, [type |-> "BUY", price |-> level,
                                          quantity |-> quantity, amount |-> ps,
                                          fee |-> fee])]

\* One BUY: the body of the innermost if of execute_buy_order.  A position
\* is kept without its "timestamp" (datetime.now()), which nothing reads.
BuyAt(s, level, ps, fee_rate) ==
    LET fee == Mul(ps, fee_rate)
        quantity == ApplyFee(Div(ps, level), fee_rate)
    IN  [s EXCEPT
           !.positions = SetPosition(@, [level |-> level, quantity |-> quantity,
                                         buy_price |-> level]),
           !.cash = Sub(@, ps),
           !.total_coin = Add(@, quantity),
           !.total_fee = Add(@, fee),
           !.executed_orders = Append(@, [type |-> "BUY", price |-> level,
                                          quantity |-> quantity, amount |-> ps,
                                          fee |-> fee])]

\* BuyCondition without the check that the level holds no position.
BuyConditionIgnoresHeld(s, level, current_price) == Le(current_price, level)

\* The condition under which a level is bought: touched and not yet held.
BuyCondition(s, level, current_price) ==
    Le(current_price, level) /\ ~HasPosition(s.positions, level)

\* EnoughCash that lets every buy through.
EnoughCashUnchecked(s, ps) == TRUE

\* The cash check of execute_buy_order.
EnoughCash(s, ps) == Le(ps, s.cash)

\* The for loop of execute_buy_order from level k on.  Dividing by a level
\* of 0.00 raises ZeroDivisionError and leaves what earlier levels did.
RECURSIVE BuyLoop(_, _, _, _, _, _)
BuyLoop(s, k, levels, current_price, ps, fee_rate) ==
    IF k > Len(levels) THEN s
    ELSE IF BuyCondition(s, levels[k], current_price) /\ EnoughCash(s, ps)
         THEN IF levels[k] = Zero
              THEN [s EXCEPT !.raised = "ZeroDivisionError"]
              ELSE BuyLoop(BuyAt(s, levels[k], ps, fee_rate), k + 1, levels,
                           current_price, ps, fee_rate)
         ELSE BuyLoop(s, k + 1, levels, current_price, ps, fee_rate)

\* execute_buy_order(current_price) on engine state e: the state it leaves,
\* the list it returns (executed_orders) and the exception it raises, if any.
ExecuteBuyOrder(e, levels, current_price, ps, fee_rate) ==
    BuyLoop([cash |-> e.cash, positions |-> e.positions, total_coin |-> e.total_coin,
             realized_profit |-> e.realized_profit, total_fee |-> e.total_fee,
             executed_orders |-> <<>>, raised |-> "none"],
            1, levels, current_price, ps, fee_rate)

\* TargetPrice without the profit target.
TargetPriceNoMarkup(position, pt) == position.buy_price

\* target_price of a position
TargetPrice(position, pt) == Mul(position.buy_price, Add(One, Div(pt, Hundred)))

\* SellCondition with a strict comparison.
SellConditionStrict(position, current_price, pt) ==
    Lt(TargetPrice(position, pt), current_price)

\* The condition under which a position is sold.
SellCondition(position, current_price, pt) ==
    Le(TargetPrice(position, pt), current_price)

\* SellAt with the profit taken on the proceeds before the fee.
SellAtGrossProfit(s, position, current_price, ps, fee_rate) ==
    LET sell_amount == Mul(position.quantity, current_price)
        sell_amount_net == ApplyFee(sell_amount, fee_rate)
        fee == Sub(sell_amount, sell_amount_net)
        profit == Sub(sell_amount, ps)
    IN  [s EXCEPT
           !.cash = Add(@, sell_amount_net),
           !.total_coin = Sub(@, position.quantity),
           !.realized_profit = Add(@, profit),
           !.total_fee = Add(@, fee),
           !.executed_orders = Append(@, [type |-> "SELL",
                                          buy_price |-> position.buy_price,
                                          sell_price |-> current_price,
                                          quantity |-> position.quantity,
                                          profit |-> profit, fee |-> fee]),
           !.positions = DelPosition(@, position.level)]

\* SellAt with the proceeds credited to cash before the fee.
SellAtCashGross(s, position, current_price, ps, fee_rate) ==
    LET sell_amount == Mul(position.quantity, current_price)
        sell_amount_net == ApplyFee(sell_amount, fee_rate)
        fee == Sub(sell_amount, sell_amount_net)
        profit == Sub(sell_amount_net, ps)
    IN  [s EXCEPT
           !.cash = Add(@, sell_amount),
           !.total_coin = Sub(@, position.quantity),
           !.realized_profit = Add(@, profit),
           !.total_fee = Add(@, fee),
           !.executed_orders = Append(@, [type |-> "SELL",
                                          buy_price |-> position.buy_price,
                                          sell_price |-> current_price,
                                          quantity |-> position.quantity,
                                          profit |-> profit, fee |-> fee]),
           !.positions = DelPosition(@, position.level)]

\* One SELL: the body of the if of execute_sell_order.
SellAt(s, position, current_price, ps, fee_rate) ==
    LET sell_amount == Mul(position.quantity, current_price)
        sell_amount_net == ApplyFee(sell_amount, fee_rate)
        fee == Sub(sell_amount, sell_amount_net)
        profit == Sub(sell_amount_net, ps)
    IN  [s EXCEPT
           !.cash = Add(@, sell_amount_net),
           !.total_coin = Sub(@, position.quantity),
           !.realized_profit = Add(@, profit),
           !.total_fee = Add(@, fee),
           !.executed_orders = Append(@, [type |-> "SELL",
                                          buy_price |-> position.buy_price,
                                          sell_price |-> current_price,
                                          quantity |-> position.quantity,
                                          profit |-> profit, fee |-> fee]),
           !.positions = DelPosition(@, position.level)]

\* The for loop of execute_sell_order over items, the copy of the positions
\* taken when the call starts, from its k-th entry on.
RECURSIVE SellLoop(_, _, _, _, _, _, _)
SellLoop(s, k, items, current_price, pt, ps, fee_rate) ==
    IF k > Len(items) THEN s
    ELSE IF SellCondition(items[k], current_price, pt)
         THEN SellLoop(SellAt(s, items[k], current_price, ps, fee_rate), k + 1,
                       items, current_price, pt, ps, fee_rate)
         ELSE SellLoop(s, k + 1, items, current_price, pt, ps, fee_rate)

\* execute_sell_order(current_price, profit_target_pct) on engine state e.
ExecuteSellOrder(e, current_price, pt, ps, fee_rate) ==
    SellLoop([cash |-> e.cash, positions |-> e.positions, total_coin |-> e.total_coin,
              realized_profit |-> e.realized_profit, total_fee |-> e.total_fee,
              executed_orders |-> <<>>, raised |-> "none"],
             1, e.positions, current_price, pt, ps, fee_rate)

\* The attributes of self assigned before the ladder is computed, and those
\* of the trading state.
ArgAttrs == {"symbol", "initial_price", "grid_spacing_pct", "num_grids", "budget",
             "fee_rate", "position_size"}
StateAttrs == {"cash", "positions", "total_coin", "realized_profit", "total_fee"}

\* The engine's fields take the values of record s.
Store(s) ==
    /\ cash' = s.cash
    /\ positions' = s.positions
    /\ total_coin' = s.total_coin
    /\ realized_profit' = s.realized_profit
    /\ total_fee' = s.total_fee

\* The call just made, kept with the one before it.
Remember(op, current_price, pt, s) ==
    LET c == [op |-> op, price |-> current_price, pt |-> pt, before |-> Engine,
              orders |-> s.executed_orders, raised |-> s.raised]
    IN  calls' = IF Len(calls) < 2 THEN Append(calls, c) ELSE <<calls[2], c>>

\* GridTrading.__init__ with arguments c: the ladder, the position size and
\* the fresh trading state.
Construct(c) ==
    /\ ctor = "constructed"
    /\ attrs = ArgAttrs \cup {"grid_levels"} \cup StateAttrs
    /\ cfg = c
    /\ grid_levels = CalculateGridLevels(c.initial_price, c.grid_spacing_pct, c.num_grids)
    /\ position_size = Mul(c.budget, c.entry_alloc)
    /\ cash = c.budget
    /\ positions = <<>>
    /\ total_coin = Zero
    /\ realized_profit = Zero
    /\ total_fee = Zero

\* No fetch is in progress.
NoFetch ==
    /\ remote = 0
    /\ limit = 0
    /\ start_ts = None
    /\ end_ts = None
    /\ params = [startTime |-> None, endTime |-> None]
    /\ all_data = <<>>
    /\ chunk = Unbound
    /\ mirror = 1
    /\ fpc = "idle"
    /\ outcome = "none"
    /\ pages = <<>>
    /\ tried = <<>>

\* ---------------------------------------------- the engine, call by call
\* A newly constructed engine; each call of execute_sell_order brings its own
\* profit_target_pct, so the run's profit target stays unset.
Init ==
    /\ \E c \in Configs : Construct(c)
    /\ profit_target_pct = None
    /\ calls = <<>>
    /\ ncalls = 0
    /\ price_data = <<>>
    /\ tick = 1
    /\ trading_log = <<>>
    /\ portofolio_history = <<>>
    /\ sim = "idle"
    /\ runs = 0
    /\ NoFetch

\* A caller invokes execute_buy_order(current_price).
ExecuteBuy ==
    /\ ncalls < MaxCalls
    /\ \E current_price \in Prices :
         LET s == ExecuteBuyOrder(Engine, grid_levels, current_price, position_size,
                                  cfg.fee_rate)
         IN  /\ Store(s)
             /\ Remember("buy", current_price, None, s)
    /\ ncalls' = ncalls + 1
    /\ UNCHANGED <<cfg, grid_levels, position_size, simVars, fetchVars, ctorVars>>

\* A caller invokes execute_sell_order(current_price, profit_target_pct).
ExecuteSell ==
    /\ ncalls < MaxCalls
    /\ \E current_price \in Prices, pt \in Targets :
         LET s == ExecuteSellOrder(Engine, current_price, pt, position_size,
                                   cfg.fee_rate)
         IN  /\ Store(s)
             /\ Remember("sell", current_price, pt, s)
    /\ ncalls' = ncalls + 1
    /\ UNCHANGED <<cfg, grid_levels, position_size, simVars, fetchVars, ctorVars>>

Next == ExecuteBuy \/ ExecuteSell

Spec == Init /\ [][Next]_vars

\* ------------------------------------------------------------ simulate
\* order["date"] = date for every order of a list.
Dated(orders, date) ==
    [k \in 1..Len(orders) |->
       [f \in DOMAIN orders[k] \cup {"date"} |->
          IF f = "date" THEN date ELSE orders[k][f]]]

\* The record simulate_grid_trading appends to portofolio_history after the
\* trades of a row, from the engine state s they left.
Snapshot(s, date, current_price) ==
    LET crypto_value == Mul(s.total_coin, current_price)
        total_value == Add(s.cash, crypto_value)
    IN  [date |-> date, price |-> current_price, cash |-> s.cash,
         crypto_value |-> crypto_value, total_value |-> total_value,
         realized_profit |-> s.realized_profit, total_fee |-> s.total_fee,
         net_profit_after_fee |-> Sub(s.realized_profit, s.total_fee)]

\* All sequences over S of length at most n.
RECURSIVE SeqsUpTo(_, _)
SeqsUpTo(S, n) ==
    IF n = 0 THEN { <<>> }
    ELSE LET shorter == SeqsUpTo(S, n - 1)
         IN  shorter \cup { Append(q, x) : q \in { r \in shorter : Len(r) = n - 1 }, x \in S }

\* simulate_grid_trading(price_data, profit_target_pct) is called on a newly
\* constructed engine; the rows of price_data are numbered 1, 2, ...
InitSim ==
    /\ \E c \in Configs : Construct(c)
    /\ profit_target_pct \in Targets
    /\ calls = <<>>
    /\ ncalls = 0
    /\ price_data \in SeqsUpTo(Prices, MaxTicks)
    /\ tick = 1
    /\ trading_log = <<>>
    /\ portofolio_history = <<>>
    /\ sim = "running"
    /\ runs = 1
    /\ NoFetch

\* The engine fields of a loop record.
Fields(s) ==
    [cash |-> s.cash, positions |-> s.positions, total_coin |-> s.total_coin,
     realized_profit |-> s.realized_profit, total_fee |-> s.total_fee]

\* TickTrades with the two calls in the other order.
TickTradesSellFirst(e, levels, current_price, pt, ps, fee_rate) ==
    LET s == ExecuteSellOrder(e, current_price, pt, ps, fee_rate)
        b == ExecuteBuyOrder(Fields(s), levels, current_price, ps, fee_rate)
    IN  [raised |-> b.raised,
         after |-> Fields(b),
         orders |-> b.executed_orders \o s.executed_orders]

\* The trading logic of one row on engine state e: execute_buy_order, then
\* execute_sell_order on the state it left, and buy_orders + sell_orders.
\* An exception raised by execute_buy_order ends the row there.
TickTrades(e, levels, current_price, pt, ps, fee_rate) ==
    LET b == ExecuteBuyOrder(e, levels, current_price, ps, fee_rate)
        s == ExecuteSellOrder(Fields(b), current_price, pt, ps, fee_rate)
    IN  IF b.raised # "none"
        THEN [raised |-> b.raised, after |-> Fields(b), orders |-> <<>>]
        ELSE [raised |-> "none", after |-> Fields(s),
              orders |-> b.executed_orders \o s.executed_orders]

\* One iteration of the loop over price_data: the trades, the orders logged
\* with the row's date, the snapshot appended.  An exception leaves the loop
\* and simulate_grid_trading at once.
SimTick ==
    /\ sim = "running"
    /\ tick <= Len(price_data)
    /\ LET date == tick
           current_price == price_data[tick]
           t == TickTrades(Engine, grid_levels, current_price, profit_target_pct,
                           position_size, cfg.fee_rate)
       IN  /\ Store(t.after)
           /\ IF t.raised # "none"
              THEN /\ sim' = "raised"
                   /\ UNCHANGED <<tick, trading_log, portofolio_history>>
              ELSE /\ trading_log' = trading_log \o Dated(t.orders, date)
                   /\ portofolio_history' =
                        Append(portofolio_history, Snapshot(t.after, date, current_price))
                   /\ tick' = tick + 1
                   /\ sim' = sim
    /\ UNCHANGED <<cfg, grid_levels, position_size, profit_target_pct, price_data, runs,
                   callVars, fetchVars, ctorVars>>

\* The loop is over: simulate_grid_trading returns the log and the history.
SimReturn ==
    /\ sim = "running"
    /\ tick > Len(price_data)
    /\ sim' = "returned"
    /\ UNCHANGED <<engineVars, callVars, fetchVars, ctorVars, profit_target_pct, price_data,
                   tick, trading_log, portofolio_history, runs>>

\* simulate_grid_trading is called once more on the same engine, with the
\* arguments of the call before: the two lists start empty, the loop is at
\* the first row, and no line of the method touches the engine's fields.
SimAgain ==
    /\ sim = "returned"
    /\ runs < MaxRuns
    /\ sim' = "running"
    /\ runs' = runs + 1
    /\ tick' = 1
    /\ trading_log' = <<>>
    /\ portofolio_history' = <<>>
    /\ UNCHANGED <<engineVars, callVars, fetchVars, ctorVars, profit_target_pct, price_data>>

NextSim == SimTick \/ SimReturn \/ SimAgain

SpecSim == InitSim /\ [][NextSim]_vars

\* ------------------------------------------------------- construction
\* Arguments GridTrading(...) is called with, valid and not: prices and
\* spacings that are negative, zero and positive, num_grids an int from -1
\* up or a float.  No level of these ladders falls half-way between two
\* cents, where the binary value Python rounds may lie on either side.
NewPrices == { Q(-1, 1), Zero, Q(3, 100), Q(4, 100), Q(20, 100), Q(100, 1) }
NewSpacings == { Q(-1, 1), Zero, Q(5, 1), Q(20, 1), Q(30, 1), Q(40, 1) }
NewGrids == { PyInt(n) : n \in -1..MaxGrids } \cup { PyFloat(Q(5, 2)) }
NewArgs ==
    { [initial_price |-> p, grid_spacing_pct |-> g, num_grids |-> n,
       budget |-> Q(24, 100), entry_alloc |-> Q(1, 3), fee_rate |-> Q(1, 10)] :
      p \in NewPrices, g \in NewSpacings, n \in NewGrids }

\* GridTrading(...) has been called and __init__ has stored its arguments
\* and position_size; the ladder is to be computed next.  The attributes not
\* yet assigned do not exist: attrs tells which do, whatever the variables
\* that stand for them hold.
InitNew ==
    /\ cfg \in NewArgs
    /\ ctor = "new"
    /\ attrs = ArgAttrs
    /\ position_size = Mul(cfg.budget, cfg.entry_alloc)
    /\ grid_levels = <<>>
    /\ cash = Zero /\ positions = <<>>
    /\ total_coin = Zero /\ realized_profit = Zero /\ total_fee = Zero
    /\ calls = <<>> /\ ncalls = 0
    /\ profit_target_pct = None /\ price_data = <<>> /\ tick = 1 /\ trading_log = <<>>
    /\ portofolio_history = <<>> /\ sim = "idle" /\ runs = 0
    /\ NoFetch

\* self.grid_levels = self._calculate_grid_levels(): the ValueError of a
\* rejected parameter leaves __init__ there, and the caller gets no instance.
NewLadder ==
    /\ ctor = "new"
    /\ IF InvalidParameter(cfg.initial_price, cfg.grid_spacing_pct, cfg.num_grids)
       THEN /\ ctor' = "ValueError"
            /\ UNCHANGED <<grid_levels, attrs>>
       ELSE /\ grid_levels' = CalculateGridLevels(cfg.initial_price, cfg.grid_spacing_pct,
                                                  cfg.num_grids)
            /\ attrs' = attrs \cup {"grid_levels"}
            /\ ctor' = "ladder"
    /\ UNCHANGED <<cfg, position_size, cash, positions, total_coin, realized_profit,
                   total_fee, callVars, simVars, fetchVars>>

\* The trading state is initialised and __init__ returns the instance.
NewState ==
    /\ ctor = "ladder"
    /\ cash' = cfg.budget
    /\ positions' = <<>>
    /\ total_coin' = Zero
    /\ realized_profit' = Zero
    /\ total_fee' = Zero
    /\ attrs' = attrs \cup StateAttrs
    /\ ctor' = "constructed"
    /\ UNCHANGED <<cfg, grid_levels, position_size, callVars, simVars, fetchVars>>

\* The caller, holding the instance, calls simulate_grid_trading on it: the
\* two lists start empty and the loop is at the first row.
NewSimulate ==
    /\ ctor = "constructed"
    /\ sim = "idle"
    /\ sim' = "running"
    /\ profit_target_pct' \in Targets
    /\ price_data' \in SeqsUpTo(Prices, 1)
    /\ tick' = 1
    /\ trading_log' = <<>>
    /\ portofolio_history' = <<>>
    /\ runs' = 1
    /\ UNCHANGED <<engineVars, callVars, fetchVars, ctorVars>>

NextNew == NewLadder \/ NewState \/ NewSimulate \/ SimTick \/ SimReturn

SpecNew == InitNew /\ [][NextNew]_vars

\* ------------------------------------------------------------ fetch
\* Number of mirrors in base_urls.
NMirrors == 2
\* Length of a candle interval in ms.
CandleSpan == 2

\* The k-th candle of the remote history: row[0] and row[6] of a kline.
Candle(k) == [open_time |-> k * CandleSpan, close_time |-> (k + 1) * CandleSpan - 1]

\* Truth value of a start_ts or end_ts in an if.
Truthy(x) == x # None /\ x # 0

\* The klines endpoint: the candles from startTime to endTime, oldest first
\* and at most lim of them; the most recent lim when no startTime is sent.
Klines(n, prm, lim) ==
    LET match == { k \in 1..n :
                     /\ (prm.startTime = None \/ Candle(k).open_time >= prm.startTime)
                     /\ (prm.endTime = None \/ Candle(k).open_time <= prm.endTime) }
        below(k) == Cardinality({ j \in match : j < k })
        above(k) == Cardinality({ j \in match : j > k })
        kept == IF prm.startTime = None
                THEN { k \in match : above(k) < lim }
                ELSE { k \in match : below(k) < lim }
        first == IF kept = {} THEN 1 ELSE CHOOSE k \in kept : \A j \in kept : k <= j
    IN  [i \in 1..Cardinality(kept) |-> Candle(first + i - 1)]

\* The request parameters as the top of the while loop leaves them.
LoopParams(prm, s, e) ==
    [startTime |-> IF Truthy(s) THEN s ELSE prm.startTime,
     endTime |-> IF Truthy(e) THEN e ELSE prm.endTime]

\* NextStart taken from the open time of the last candle.
NextStartFromOpen(list) == list[Len(list)].open_time

\* The cursor after a page: the close time of its last candle + 1 ms.
NextStart(list) == list[Len(list)].close_time + 1

\* get_historical_klines(symbol, interval, start_date, end_date, limit) is
\* called and reaches the first request of the first round.
InitFetch ==
    /\ cfg = <<>> /\ grid_levels = <<>>
    /\ position_size = Zero /\ cash = Zero /\ positions = <<>>
    /\ total_coin = Zero /\ realized_profit = Zero /\ total_fee = Zero
    /\ calls = <<>> /\ ncalls = 0
    /\ profit_target_pct = None /\ price_data = <<>> /\ tick = 1 /\ trading_log = <<>>
    /\ portofolio_history = <<>> /\ sim = "idle" /\ runs = 0
    /\ ctor = "none" /\ attrs = {}
    /\ remote \in 0..MaxCandles
    /\ limit \in 1..MaxLimit
    /\ start_ts \in {None, 0, CandleSpan, 2 * CandleSpan}
    /\ end_ts \in {None, 4 * CandleSpan}
    /\ params = LoopParams([startTime |-> None, endTime |-> None], start_ts, end_ts)
    /\ all_data = <<>>
    /\ chunk = Unbound
    /\ mirror = 1
    /\ fpc = "mirrors"
    /\ outcome = "none"
    /\ pages = <<>>
    /\ tried = <<>>

\* The request to the current mirror raises (network error, non-2xx status,
\* a body that is no JSON): the except clause goes on to the next mirror;
\* after the last mirror the for loop is over.
MirrorFails ==
    /\ fpc = "mirrors"
    /\ IF mirror < NMirrors
       THEN mirror' = mirror + 1 /\ fpc' = fpc
       ELSE mirror' = mirror /\ fpc' = "check"
    /\ tried' = Append(tried, [mirror |-> mirror, result |-> "failed"])
    /\ UNCHANGED <<engineVars, callVars, simVars, ctorVars, remote, limit, start_ts, end_ts,
                   params, all_data, chunk, outcome, pages>>

\* The current mirror answers: chunk is bound to the page; an empty page
\* breaks out of the for loop, any other is appended to all_data, moves the
\* cursor and breaks out of the for loop.
MirrorAnswers ==
    /\ fpc = "mirrors"
    /\ LET page == Klines(remote, params, limit)
       IN  /\ chunk' = Bound(page)
           /\ pages' = Append(pages, [startTime |-> params.startTime,
                                      mirror |-> mirror, chunk |-> page])
           /\ IF page = <<>>
              THEN UNCHANGED <<all_data, start_ts>>
              ELSE /\ all_data' = all_data \o page
                   /\ start_ts' = NextStart(page)
           /\ tried' = Append(tried, [mirror |-> mirror,
                                      result |-> IF page = <<>> THEN "empty" ELSE "page"])
    /\ fpc' = "check"
    /\ UNCHANGED <<engineVars, callVars, simVars, ctorVars, remote, limit, end_ts, params,
                   mirror, outcome>>

\* After the for loop: "if not chunk or len(chunk) < limit: break", else the
\* pause and the next round.  Reading chunk while it is unbound raises
\* UnboundLocalError.
RoundEnd ==
    /\ fpc = "check"
    /\ IF ~chunk.bound
       THEN /\ outcome' = "UnboundLocalError"
            /\ fpc' = "done"
            /\ UNCHANGED <<params, mirror, tried>>
       ELSE IF chunk.value = <<>> \/ Len(chunk.value) < limit
       THEN /\ fpc' = "after"
            /\ UNCHANGED <<params, mirror, outcome, tried>>
       ELSE /\ fpc' = "mirrors"
            /\ params' = LoopParams(params, start_ts, end_ts)
            /\ mirror' = 1
            /\ tried' = <<>>
            /\ UNCHANGED outcome
    /\ UNCHANGED <<engineVars, callVars, simVars, ctorVars, remote, limit, start_ts, end_ts,
                   all_data, chunk, pages>>

\* After the while loop: ConnectionError when all_data is empty, else the
\* frame built from all_data is returned.
Finish ==
    /\ fpc = "after"
    /\ outcome' = IF all_data = <<>> THEN "ConnectionError" ELSE "returned"
    /\ fpc' = "done"
    /\ UNCHANGED <<engineVars, callVars, simVars, ctorVars, remote, limit, start_ts, end_ts,
                   params, all_data, chunk, mirror, pages, tried>>

NextFetch == MirrorFails \/ MirrorAnswers \/ RoundEnd \/ Finish

SpecFetch == InitFetch /\ [][NextFetch]_vars

\* The call keeps running: requests.get answers or raises within its timeout,
\* the pause between two rounds is 0.25 s, and nothing else blocks, so a step
\* that can be taken is taken.  Which mirror fails or answers stays free.
SpecFetchLive == SpecFetch /\ WF_vars(NextFetch)

\* ------------------------------------------------------------ properties
\* (engine driven call by call, specification Spec)
HasCall == Len(calls) >= 1
LastCall == calls[Len(calls)]
TwoCalls == Len(calls) = 2

\* The levels a dict of positions holds.
Held(pos) == { pos[k].level : k \in 1..Len(pos) }

\* The position held at a level.
PositionAt(pos, level) == pos[CHOOSE k \in 1..Len(pos) : pos[k].level = level]

\* The levels of the ladder.
Ladder == { grid_levels[k] : k \in 1..Len(grid_levels) }

RECURSIVE SumQuantity(_)
SumQuantity(orders) ==
    IF orders = <<>> THEN Zero
    ELSE Add(orders[1].quantity, SumQuantity(Tail(orders)))

\* Times(n, x) is n * x for a natural number n.
Times(n, x) == Mul(Q(n, 1), x)

\* C1: every level holds at most one open position; a call of
\* execute_buy_order opens positions only at levels of the ladder that held
\* none when the call started, opens at most one per level, and leaves every
\* position that was open in place and untouched, so that only
\* execute_sell_order makes a level eligible again.
C1_OnePositionPerLevel ==
    /\ \A i, j \in 1..Len(positions) :
         positions[i].level = positions[j].level => i = j
    /\ Held(positions) \subseteq Ladder
    /\ (HasCall /\ LastCall.op = "buy") =>
         LET c == LastCall
         IN  /\ \A k \in 1..Len(c.orders) : c.orders[k].price \notin Held(c.before.positions)
             /\ \A i, j \in 1..Len(c.orders) :
                  c.orders[i].price = c.orders[j].price => i = j
             /\ Len(positions) = Len(c.before.positions) + Len(c.orders)
             /\ \A k \in 1..Len(c.before.positions) : positions[k] = c.before.positions[k]
             /\ \A k \in 1..Len(c.orders) :
                  positions[Len(c.before.positions) + k].level = c.orders[k].price

\* A buy call was offered a level that already held a position and, having
\* the cash to buy it again, did not.
C1_Witness ==
    /\ HasCall /\ LastCall.op = "buy"
    /\ LastCall.orders # <<>>
    /\ \E L \in Held(LastCall.before.positions) :
         /\ Le(LastCall.price, L)
         /\ Le(position_size, cash)
         /\ PositionAt(positions, L) = PositionAt(LastCall.before.positions, L)

C3_RoundTrip ==
    (/\ TwoCalls
     /\ calls[1].op = "buy" /\ calls[2].op = "sell"
     /\ Len(calls[1].orders) = 1
     /\ LET L == calls[1].orders[1].price
            p == calls[2].price
        IN  /\ Le(Mul(L, Add(One, Div(calls[2].pt, Hundred))), p)
            /\ \A k \in 1..Len(calls[1].before.positions) :
                 Lt(p, Mul(calls[1].before.positions[k].buy_price,
                           Add(One, Div(calls[2].pt, Hundred)))))
    =>
        LET b == calls[1]
            L == b.orders[1].price
            p == calls[2].price
            quantity == b.orders[1].quantity
            profit == Sub(Mul(Mul(quantity, p), Sub(One, cfg.fee_rate)), position_size)
        IN  /\ Len(calls[2].orders) = 1
            /\ calls[2].orders[1].type = "SELL"
            /\ calls[2].orders[1].buy_price = L
            /\ calls[2].orders[1].sell_price = p
            /\ calls[2].orders[1].profit = profit
            /\ L \notin Held(positions)
            /\ positions = b.before.positions
            /\ total_coin = b.before.total_coin
            /\ realized_profit = Add(b.before.realized_profit, profit)
            /\ cash = Add(b.before.cash, profit)

\* A round trip made while another position stayed open, at a profit that
\* is not zero.
C3_Witness ==
    /\ TwoCalls
    /\ calls[1].op = "buy" /\ calls[2].op = "sell"
    /\ Len(calls[1].orders) = 1 /\ Len(calls[2].orders) = 1
    /\ calls[2].orders[1].buy_price = calls[1].orders[1].price
    /\ calls[1].before.positions # <<>>
    /\ positions = calls[1].before.positions
    /\ calls[2].orders[1].profit # Zero

\* The BUY orders of a call at levels above L: what the call has bought
\* when it visits L, the ladder being visited from its highest level down.
BoughtAbove(c, L) == Cardinality({ k \in 1..Len(c.orders) : Lt(L, c.orders[k].price) })

\* The cash a buy call holds at the moment it visits level L.
CashAtVisit(c, L) == Sub(c.before.cash, Times(BoughtAbove(c, L), position_size))

\* C6: one call of execute_buy_order handles every level of the ladder and
\* raises nothing: its orders are in ladder order, highest level first, and
\* a level gets a BUY exactly when the price is at or below it, it held no
\* position and the cash was at least position_size when it was visited; a
\* level passed over changes nothing (cash and positions change by the
\* orders alone).
C6_AllEligibleLevels ==
    (HasCall /\ LastCall.op = "buy") =>
        LET c == LastCall
        IN  /\ c.raised = "none"
            /\ \A i, j \in 1..Len(c.orders) :
                 i < j => Lt(c.orders[j].price, c.orders[i].price)
            /\ \A L \in Ladder :
                 (\E k \in 1..Len(c.orders) : c.orders[k].price = L)
                 <=> (/\ Le(c.price, L)
                      /\ L \notin Held(c.before.positions)
                      /\ Le(position_size, CashAtVisit(c, L)))
            /\ Len(positions) = Len(c.before.positions) + Len(c.orders)
            /\ cash = Sub(c.before.cash, Times(Len(c.orders), position_size))

\* The same on a ladder whose levels are all positive.
C6_OnPositiveLadder ==
    (\A L \in Ladder : Lt(Zero, L)) => C6_AllEligibleLevels

\* C7: execute_buy_order called twice in a row at the same price: the second
\* call returns an empty list and leaves cash, positions, total_coin and
\* total_fee as they were.
C7_BuyTwiceIdempotent ==
    (/\ TwoCalls
     /\ calls[1].op = "buy" /\ calls[2].op = "buy"
     /\ calls[1].price = calls[2].price)
    =>
        /\ calls[2].raised = "none"
        /\ calls[2].orders = <<>>
        /\ Engine = calls[2].before

\* The part of C7 about orders and state alone: the second call executes no
\* order and changes nothing, whether or not it returns.
C7_NoSecondOrder ==
    (/\ TwoCalls
     /\ calls[1].op = "buy" /\ calls[2].op = "buy"
     /\ calls[1].price = calls[2].price)
    =>
        /\ calls[2].orders = <<>>
        /\ Engine = calls[2].before

\* The first half of C8: a call of execute_sell_order closes exactly the
\* positions whose target buy_price * (1 + profit_target_pct / 100) the price
\* has reached, with one SELL each, and leaves the others as they were.
SellClosesExactlyAtTarget ==
    (HasCall /\ LastCall.op = "sell") =>
        LET c == LastCall
        IN  /\ \A k \in 1..Len(c.before.positions) :
                 LET P == c.before.positions[k]
                     reached == Le(Mul(P.buy_price, Add(One, Div(c.pt, Hundred))),
                                   c.price)
                 IN  /\ reached <=> P.level \notin Held(positions)
                     /\ reached <=> \E i \in 1..Len(c.orders) :
                                       /\ c.orders[i].type = "SELL"
                                       /\ c.orders[i].buy_price = P.buy_price
                                       /\ c.orders[i].quantity = P.quantity
                     /\ ~reached => PositionAt(positions, P.level) = P
            /\ Held(positions) \subseteq Held(c.before.positions)
            /\ Len(c.orders) = Len(c.before.positions) - Len(positions)

\* The levels a sell call closed.
ClosedBy(c, after) == Held(c.before.positions) \ Held(after)

\* C8 as stated: moreover, after a sell call closed level L, a buy call that
\* comes next with a price at or below L and cash >= position_size (when the
\* call starts) opens a position at L.
C8_SellThenBuyAtCallCash ==
    /\ SellClosesExactlyAtTarget
    /\ (TwoCalls /\ calls[1].op = "sell" /\ calls[2].op = "buy") =>
         \A L \in ClosedBy(calls[1], calls[2].before.positions) :
            (Le(calls[2].price, L) /\ Le(position_size, calls[2].before.cash))
            => L \in Held(positions)

\* C8, amended: the cash is the cash held when the buy call visits L, after
\* the levels above L that it bought.
C8_SellThenBuy ==
    /\ SellClosesExactlyAtTarget
    /\ (TwoCalls /\ calls[1].op = "sell" /\ calls[2].op = "buy") =>
         \A L \in ClosedBy(calls[1], calls[2].before.positions) :
            (Le(calls[2].price, L) /\ Le(position_size, CashAtVisit(calls[2], L)))
            => /\ L \in Held(positions)
               /\ \E k \in 1..Len(calls[2].orders) : calls[2].orders[k].price = L

\* A sell call closed one position and left another open, and the buy call
\* after it opened the closed level again.
C8_Witness ==
    /\ TwoCalls /\ calls[1].op = "sell" /\ calls[2].op = "buy"
    /\ calls[2].before.positions # <<>>
    /\ \E L \in ClosedBy(calls[1], calls[2].before.positions) :
         /\ L \in Held(positions)
         /\ \E k \in 1..Len(calls[2].orders) : calls[2].orders[k].price = L

\* ------------------------------------------------------------ properties
\* (simulate_grid_trading, specification SpecSim)

\* C4: simulate_grid_trading goes through the whole price series and
\* appends exactly one snapshot per row, in row order; the newest snapshot
\* has total_value = cash + total_coin * price for the engine's cash and
\* total_coin after that row's buys and sells, and every snapshot has
\* total_value = cash + crypto_value.
C4_SnapshotPerTick ==
    /\ sim # "raised"
    /\ Len(portofolio_history) = tick - 1
    /\ sim = "returned" => Len(portofolio_history) = Len(price_data)
    /\ \A k \in 1..Len(portofolio_history) :
         LET h == portofolio_history[k]
         IN  /\ h.date = k
             /\ h.price = price_data[k]
             /\ h.total_value = Add(h.cash, h.crypto_value)
             /\ k = tick - 1 =>
                  /\ h.cash = cash
                  /\ h.total_value = Add(cash, Mul(total_coin, price_data[k]))

\* The same about the rows gone through, whether or not a row raises.
C4_OnRowsCompleted ==
    /\ Len(portofolio_history) = tick - 1
    /\ sim = "returned" => Len(portofolio_history) = Len(price_data)
    /\ \A k \in 1..Len(portofolio_history) :
         LET h == portofolio_history[k]
         IN  /\ h.date = k
             /\ h.price = price_data[k]
             /\ h.total_value = Add(h.cash, h.crypto_value)
             /\ (k = tick - 1 /\ sim # "raised") =>
                  /\ h.cash = cash
                  /\ h.total_value = Add(cash, Mul(total_coin, price_data[k]))

\* C5: each row runs execute_buy_order before execute_sell_order at the
\* row's price: in trading_log the dates never decrease and among the orders
\* of one date no SELL comes before a BUY; and, the sells coming last, after
\* a row no position is left open whose target the row's price has reached.
C5_BuyBeforeSell ==
    /\ \A i, j \in 1..Len(trading_log) :
         i < j =>
             /\ trading_log[i].date <= trading_log[j].date
             /\ trading_log[i].date = trading_log[j].date =>
                  ~(trading_log[i].type = "SELL" /\ trading_log[j].type = "BUY")
    /\ (tick > 1 /\ sim # "raised") =>
         \A k \in 1..Len(positions) :
            Lt(price_data[tick - 1],
               Mul(positions[k].buy_price, Add(One, Div(profit_target_pct, Hundred))))

\* A log with a BUY and a SELL of one row, and orders of an earlier row.
C5_Witness ==
    \E i, j, k \in 1..Len(trading_log) :
        /\ i < j /\ j < k
        /\ trading_log[i].date < trading_log[j].date
        /\ trading_log[j].date = trading_log[k].date
        /\ trading_log[j].type = "BUY" /\ trading_log[k].type = "SELL"

\* ------------------------------------------------------------ properties
\* (get_historical_klines, specification SpecFetch)

\* C9: a fetch that ends without any mirror having answered (every mirror
\* failed in the first round) ends by raising ConnectionError.
C9_AllMirrorsFailConnectionError ==
    (fpc = "done" /\ pages = <<>>) => outcome = "ConnectionError"

RECURSIVE Concat(_)
Concat(pgs) == IF pgs = <<>> THEN <<>> ELSE pgs[1].chunk \o Concat(Tail(pgs))

\* C10: the answers received are pages of exactly limit candles, but for the
\* last, which may be shorter or empty; no request follows a shorter page
\* and the fetch then ends; all_data, which is what the fetch returns, is
\* the pages one after the other in request order, its open times strictly
\* ascending; every request after the first answered one carries
\* startTime = close time of the last candle of the page before + 1, which
\* is more than the startTime before.
C10_Pagination ==
    /\ \A k \in 1..Len(pages) - 1 : Len(pages[k].chunk) = limit
    /\ (pages # <<>> /\ Len(pages[Len(pages)].chunk) < limit) =>
         fpc \in {"check", "after", "done"}
    /\ outcome = "returned" =>
         /\ pages # <<>>
         /\ Len(pages[Len(pages)].chunk) < limit
    /\ all_data = Concat(pages)
    /\ \A i, j \in 1..Len(all_data) :
         i < j => all_data[i].open_time < all_data[j].open_time
    /\ \A k \in 2..Len(pages) :
         /\ pages[k].startTime =
              pages[k - 1].chunk[Len(pages[k - 1].chunk)].close_time + 1
         /\ pages[k].startTime > pages[k - 1].startTime
    /\ (fpc = "mirrors" /\ pages # <<>>) =>
         params.startTime =
            pages[Len(pages)].chunk[Len(pages[Len(pages)].chunk)].close_time + 1

\* A fetch returned two full pages and a shorter one that is not empty, the
\* last from the second mirror.
C10_Witness ==
    /\ outcome = "returned"
    /\ Len(pages) = 3
    /\ pages[3].chunk # <<>>
    /\ pages[3].mirror = 2
    /\ Len(all_data) = 2 * limit + Len(pages[3].chunk)
    /\ limit > 1

\* Every mirror of base_urls was contacted in the current round and failed.
AllMirrorsFailed ==
    /\ Len(tried) = NMirrors
    /\ \A i \in 1..NMirrors : tried[i].result = "failed"

\* C11: when a round in which every mirror failed ends and all_data already
\* holds candles, the while loop is left with all_data as it is (and the
\* fetch then returns it).
C11_ExhaustedRoundReturns ==
    [][(fpc = "check" /\ AllMirrorsFailed /\ all_data # <<>>)
         => (fpc' = "after" /\ all_data' = all_data)]_vars

\* C12: in a round the mirrors are contacted in the order of base_urls; a
\* mirror that returns candles is the last one contacted and its candles,
\* and no others, are appended; after a mirror that failed or returned an
\* empty body the next mirror of the list is contacted.
C12_MirrorFallback ==
    /\ \A i \in 1..Len(tried) : tried[i].mirror = i
    /\ \A i \in 1..Len(tried) :
          tried[i].result = "page" =>
            /\ i = Len(tried)
            /\ fpc # "mirrors"
            /\ pages # <<>>
            /\ pages[Len(pages)].mirror = i
            /\ Len(all_data) >= Len(pages[Len(pages)].chunk)
            /\ SubSeq(all_data, Len(all_data) - Len(pages[Len(pages)].chunk) + 1,
                      Len(all_data)) = pages[Len(pages)].chunk
    /\ fpc # "mirrors" =>
          \A i \in 1..Len(tried) :
            (tried[i].result \in {"failed", "empty"} /\ i < NMirrors) => i < Len(tried)

\* C13: every call of get_historical_klines ends, by returning or by raising.
C13_Terminates == <>(fpc = "done")

\* ------------------------------------------------------------ properties
\* (GridTrading(...) from its call on, specification SpecNew)

\* The constructor arguments pass the validation the contract states:
\* a positive price, a positive spacing, a positive integer num_grids.
ValidArgs(c) ==
    /\ Lt(Zero, c.initial_price)
    /\ Lt(Zero, c.grid_spacing_pct)
    /\ c.num_grids.type = "int"
    /\ c.num_grids.value > 0

\* i * grid_spacing_pct as a percentage, and the level of rank i before it
\* is rounded: initial_price * (100 - i * grid_spacing_pct) / 100.
DiscountPct(c, i) == Mul(Q(i, 1), c.grid_spacing_pct)
ExactLevel(c, i) == Div(Mul(c.initial_price, Sub(Hundred, DiscountPct(c, i))), Hundred)

\* C14: the ladder has one level for each i of 1..num_grids whose discount is
\* below 100 %, these i are an initial stretch 1..k, level i is a whole
\* number of cents at most half a cent from initial_price * (1 - discount);
\* so the ladder is no longer than num_grids and shorter when some discount
\* reaches 100 %, which raises nothing; 100, 5, 3 gives 95, 90, 85.
C14_Levels ==
    /\ (ValidArgs(cfg) /\ ctor \notin {"new", "none"}) => "grid_levels" \in attrs
    /\ "grid_levels" \in attrs =>
         LET n == cfg.num_grids.value
             below == { i \in 1..n : Lt(DiscountPct(cfg, i), Hundred) }
         IN  /\ Len(grid_levels) = Cardinality(below)
             /\ below = 1..Len(grid_levels)
             /\ \A i \in 1..Len(grid_levels) :
                   /\ 100 % grid_levels[i][2] = 0
                   /\ Le(Sub(grid_levels[i], ExactLevel(cfg, i)), Q(1, 200))
                   /\ Le(Sub(ExactLevel(cfg, i), grid_levels[i]), Q(1, 200))
             /\ Len(grid_levels) <= n
             /\ (\E i \in 1..n : Le(Hundred, DiscountPct(cfg, i))) => Len(grid_levels) < n
             /\ (/\ cfg.initial_price = Q(100, 1)
                 /\ cfg.grid_spacing_pct = Q(5, 1)
                 /\ cfg.num_grids = PyInt(3))
                  => grid_levels = <<Q(95, 1), Q(90, 1), Q(85, 1)>>

\* A ladder cut short by the clamp, with a level that rounding moved.
C14_Witness ==
    /\ "grid_levels" \in attrs
    /\ ctor = "ladder"
    /\ Len(grid_levels) >= 2
    /\ Len(grid_levels) < cfg.num_grids.value
    /\ \E i \in 1..Len(grid_levels) : grid_levels[i] # ExactLevel(cfg, i)

\* C15: the ladder computed from valid arguments is strictly descending and
\* each of its levels is a positive price.
C15_WellFormedLadder ==
    "grid_levels" \in attrs =>
      /\ \A i \in 1..Len(grid_levels) : Lt(Zero, grid_levels[i])
      /\ \A i, j \in 1..Len(grid_levels) : i < j => Lt(grid_levels[j], grid_levels[i])

\* C16: with a price or a spacing that is not positive, or a num_grids that
\* is not a positive int, construction ends in ValueError at the ladder
\* step: self has neither grid_levels nor any field of the trading state,
\* nothing was simulated, and nothing more can happen on it.
C16_InvalidConstruction ==
    ~ValidArgs(cfg) =>
      /\ ctor \in {"new", "ValueError"}
      /\ attrs = ArgAttrs
      /\ sim = "idle" /\ trading_log = <<>> /\ portofolio_history = <<>>
      /\ ctor = "ValueError" => ~ENABLED NextNew

\* A construction that failed on a float num_grids.
C16_Witness ==
    /\ ctor = "ValueError"
    /\ cfg.num_grids.type = "float"
    /\ Lt(Zero, cfg.initial_price) /\ Lt(Zero, cfg.grid_spacing_pct)

\* ------------------------------------------------------------ properties
\* (simulate_grid_trading called again on the same engine, specification SpecSim)

\* C17: when a call of simulate_grid_trading is about to process its first
\* row, the engine holds the budget as cash, no coin, no realized profit, no
\* fee and no position.
C17_FreshStateEachRun ==
    (sim = "running" /\ tick = 1) =>
      /\ cash = cfg.budget
      /\ total_coin = Zero
      /\ realized_profit = Zero
      /\ total_fee = Zero
      /\ positions = <<>>

\* ------------------------------------------------------------ properties
\* (engine driven call by call, specification Spec: the balance of cash)

\* C18: after any sequence of calls, cash plus position_size for each open
\* position equals the budget plus the realized profit; with no position
\* open, cash - budget is the realized profit.
C18_AccountingIdentity ==
    /\ Add(cash, Times(Len(positions), position_size)) = Add(cfg.budget, realized_profit)
    /\ positions = <<>> => Sub(cash, cfg.budget) = realized_profit

\* A sale has been booked and a position is open.
C18_Witness ==
    /\ HasCall
    /\ realized_profit # Zero
    /\ positions # <<>>
    /\ cash # cfg.budget

\* C19: cash is never negative (every configuration drawn has a positive
\* budget, a positive entry_alloc and a fee_rate within 0..1, every price is
\* non-negative).
C19_CashNeverNegative ==
    /\ Lt(Zero, cfg.budget) /\ Lt(Zero, cfg.entry_alloc)
    /\ Le(Zero, cfg.fee_rate) /\ Le(cfg.fee_rate, One)
    /\ Le(Zero, cash)

\* The last call was a buy that left no cash and a touched level unbought.
C19_Witness ==
    /\ HasCall
    /\ LastCall.op = "buy"
    /\ LastCall.orders # <<>>
    /\ cash = Zero
    /\ \E k \in 1..Len(grid_levels) :
          /\ Le(LastCall.price, grid_levels[k])
          /\ ~HasPosition(positions, grid_levels[k])

\* ------------------------------------------------------------ properties
\* (simulate_grid_trading, specification SpecSim: buys and sells of one row)

\* The profit target is positive and so is every level of the ladder.
PositiveTargetAndLevels ==
    /\ Lt(Zero, profit_target_pct)
    /\ \A k \in 1..Len(grid_levels) : Lt(Zero, grid_levels[k])

\* The entries a step appends to trading_log (none when the log starts anew).
Logged == { k \in 1..Len(trading_log') : k > Len(trading_log) }

\* C20: with a positive profit target and positive levels, whatever a row
\* logs, a level it buys is still held when the row is done, and a level it
\* sells was held before the row began and is not bought in that row: the
\* position a SELL closes was opened by a BUY of an earlier row.
C20_NoSameTickRoundTrip ==
    [][PositiveTargetAndLevels =>
         \A k \in Logged :
           /\ trading_log'[k].type = "BUY" =>
                HasPosition(positions', trading_log'[k].price)
           /\ trading_log'[k].type = "SELL" =>
                /\ HasPosition(positions, trading_log'[k].buy_price)
                /\ ~HasPosition(positions', trading_log'[k].buy_price)
                /\ \A j \in Logged :
                      trading_log'[j].type = "BUY" =>
                        trading_log'[j].price # trading_log'[k].buy_price]_vars

\* A log in which a level bought in one row is sold in a later row, under a
\* positive profit target and positive levels.
C20_Witness ==
    /\ PositiveTargetAndLevels
    /\ \E j, k \in 1..Len(trading_log) :
          /\ trading_log[j].type = "BUY" /\ trading_log[k].type = "SELL"
          /\ trading_log[j].price = trading_log[k].buy_price
          /\ trading_log[j].date < trading_log[k].date

====
